---- MODULE Spec2Model ----
(***************************************************************************)
(* sqsmover (cmd/sqs/main.go): main resolves two queues, reads the source  *)
(* queue's approximate message count and calls moveMessages, whose loop    *)
(* receives a batch from the source, sends it to the destination and       *)
(* deletes it from the source.  The SQS service is the environment: its    *)
(* responses are chosen nondeterministically; the two queues are state.    *)
(***************************************************************************)
EXTENDS Integers, Sequences, FiniteSets, TLC

\* ---- bounds of the model
NumMsgs == 11        \* messages the source queue holds at most at the start
MaxApprox == 2       \* largest ApproximateNumberOfMessages the service reports
MaxShort == 1        \* send responses that list fewer results than entries
RerunMsgs == 3       \* messages the source holds at most when re-invocation is modelled
MaxLen == 3          \* longest message list handed to the translators on their own
MaxId == 2           \* message ids and receipt handles of those lists

\* ---- program constants (ReceiveMessageInput, main.go:133-138)
MaxNumberOfMessages == 10
VisibilityTimeout == 2
WaitTimeSeconds == 0

VARIABLES
    pc,                \* position of the program: main, receive, send, delete, returned, panic
    source,            \* ids of the messages held by the source queue
    source0,           \* the source queue's content when the program started
    invisible,         \* messages of the source under a lease (received, not yet visible again)
    dest,              \* dest[i]: copies of message i delivered to the destination queue
    numberOfMessages,  \* main.go:73, parameter of moveMessages
    messagesProcessed, \* main.go:156
    bTotal,            \* b.Total of the progress bar
    bValue,            \* value of the progress bar (b.ValueInt)
    messages,          \* resp.Messages of the current iteration
    recvErr,           \* err of the last ReceiveMessage
    sendResp,          \* result of this iteration's SendMessageBatch, NoSendResp before it
    delReq,            \* Entries of this iteration's DeleteMessageBatch request, empty if none
    delResp,           \* result of this iteration's DeleteMessageBatch, NoDelResp before it
    report,            \* the last line the program logged
    calls,             \* number of ReceiveMessage / SendMessageBatch / DeleteMessageBatch calls issued
    short,             \* send responses so far that listed fewer results than entries
    received,          \* ids of the messages ReceiveMessage has handed to the program
    sendReq,           \* Entries of this iteration's SendMessageBatch request, empty if none
    resolveErr,        \* which GetQueueUrl call of main failed: none, source, destination
    run                \* 1 in the first invocation of the program, 2 in a re-invocation

vars == <<pc, source, source0, invisible, dest, numberOfMessages, messagesProcessed,
          bTotal, bValue, messages, recvErr, sendResp, delReq, delResp, report, calls, short,
          received, sendReq, resolveErr, run>>

Ids == 1..NumMsgs
\* no SendMessageBatch / DeleteMessageBatch response yet in this iteration
NoSendResp == [none |-> TRUE, err |-> FALSE, Successful |-> <<>>, Failed |-> <<>>]
NoDelResp == [none |-> TRUE, err |-> FALSE, Failed |-> <<>>, Deleted |-> {}]
NoNum == -1

\* ---- helpers on sets and sequences
\* the k lowest elements of S, in increasing order (k <= Cardinality(S))
TakeLowest(S, k) ==
    [j \in 1..k |-> CHOOSE x \in S : Cardinality({y \in S : y < x}) = j - 1]

MinOf(a, b) == IF a < b THEN a ELSE b

\* ---- strconv: the attribute is a decimal string, a sequence of digits
RECURSIVE Itoa(_)
Itoa(n) == IF n < 10 THEN <<n>> ELSE Itoa(n \div 10) \o <<n % 10>>

RECURSIVE AtoiFrom(_, _)
AtoiFrom(s, acc) ==
    IF s = <<>> THEN acc
    ELSE IF Head(s) \notin 0..9 THEN 0
    ELSE AtoiFrom(Tail(s), acc * 10 + Head(s))

\* strconv.Atoi with its error dropped (main.go:73): 0 for a string that is no number
Atoi(s) == IF s = <<>> THEN 0 ELSE AtoiFrom(s, 0)

\* ---- the messages of the queue
BodyOf(i) == i % 2
Message(i, rcv) == [MessageId |-> i, Body |-> BodyOf(i), ReceiptHandle |-> <<i, rcv>>]

\* ---- Batch Translator (main.go:108-130)
\* mutant: the entries are appended in reverse order
convertToEntriesReversed(msgs) ==
    [i \in 1..Len(msgs) |-> [MessageBody |-> msgs[Len(msgs) + 1 - i].Body,
                             Id |-> msgs[Len(msgs) + 1 - i].MessageId]]

convertToEntries(msgs) ==
    [i \in 1..Len(msgs) |-> [MessageBody |-> msgs[i].Body, Id |-> msgs[i].MessageId]]

convertSuccessfulMessageToBatchRequestEntry(msgs) ==
    [i \in 1..Len(msgs) |-> [ReceiptHandle |-> msgs[i].ReceiptHandle, Id |-> msgs[i].MessageId]]

EntryIds(entries) == {entries[i].Id : i \in 1..Len(entries)}

\* ---- the SQS service (the environment): what a call may return
\* ReceiveMessage: an error with no message, or up to MaxNumberOfMessages visible
\* messages; with WaitTimeSeconds = 0 (short poll) possibly none although some are
\* visible.  The program reads only the number of messages and treats them alike, so
\* the service's picks are narrowed to the boundary sizes (none, one, as many as
\* allowed) and to the lowest ids.
ReceiveSizes(visible) ==
    {IF WaitTimeSeconds = 0 THEN 0 ELSE MinOf(1, Cardinality(visible)),
     MinOf(1, Cardinality(visible)),
     MinOf(MaxNumberOfMessages, Cardinality(visible))}

ReceiveResponses(visible, rcv) ==
    {[err |-> TRUE, Messages |-> <<>>]} \cup
    {[err |-> FALSE,
      Messages |-> [j \in 1..k |-> Message(TakeLowest(visible, k)[j], rcv)]] :
        k \in ReceiveSizes(visible)}

\* SendMessageBatch: an error, or a result per entry: the first nS entries Successful,
\* the last nF Failed; while the budget MaxShort lasts, also a response that reports
\* no failure and leaves out the last entry or all of them (the case main.go:189
\* tests for).
SendResponses(entries, mayBeShort) ==
    {[none |-> FALSE, err |-> TRUE, Successful |-> <<>>, Failed |-> <<>>]} \cup
    {[none |-> FALSE, err |-> FALSE,
      Successful |-> [j \in 1..nS |-> [Id |-> entries[j].Id]],
      Failed |-> [j \in 1..nF |-> [Id |-> entries[Len(entries) - nF + j].Id]]] :
        <<nS, nF>> \in {p \in (0..Len(entries)) \X (0..Len(entries)) :
                          \/ p[1] + p[2] = Len(entries)
                          \/ p[1] \in {0, Len(entries) - 1} /\ p[2] = 0 /\ mayBeShort}}

\* DeleteMessageBatch: an error (nothing deleted), or the last nF entries Failed and
\* the others deleted.
DeleteResponses(entries) ==
    {[none |-> FALSE, err |-> TRUE, Failed |-> <<>>, Deleted |-> {}]} \cup
    {[none |-> FALSE, err |-> FALSE,
      Failed |-> [j \in 1..nF |-> [Id |-> entries[Len(entries) - nF + j].Id]],
      Deleted |-> {entries[j].ReceiptHandle[1] : j \in 1..(Len(entries) - nF)}] :
        nF \in 0..Len(entries)}

\* what main's calls may return (main.go:35, 50, 59, 68)
MainEnv ==
    [sess : BOOLEAN, src : BOOLEAN, dst : BOOLEAN,
     attrOk : BOOLEAN, attr : {Itoa(n) : n \in 0..MaxApprox}]

\* ---- the log lines (apex/log): level, message, the number and the error printed in it
Info(msg, num) == [level |-> "info", msg |-> msg, num |-> num, err |-> FALSE]
Error(msg, num) == [level |-> "error", msg |-> msg, num |-> num, err |-> FALSE]
logAwsError(msg) == [level |-> "error", msg |-> msg, num |-> NoNum, err |-> TRUE]

\* ---- the conditions and assignments of moveMessages
\* main.go:161
NoMessages(resp) == Len(resp.Messages) = 0

\* main.go:163: the number printed in "Done. Moved %s messages"
DoneCount(number, processed) == number

\* mutant: the err of SendMessageBatch is not checked
SendErroredIgnored(resp) == FALSE

\* main.go:179
SendErrored(resp) == resp.err

\* mutant: one failed entry is let through
SendFailedOffByOne(resp) == Len(resp.Failed) > 1

\* main.go:184
SendFailed(resp) == Len(resp.Failed) > 0

\* mutant: the delete is issued whatever the number of confirmed entries
AllForwardedUnchecked(resp, msgs) == TRUE

\* mutant: a send that confirmed no entry counts as forwarded too
AllForwardedOrNone(resp, msgs) ==
    Len(resp.Successful) = Len(msgs) \/ Len(resp.Successful) = 0

\* main.go:189
AllForwarded(resp, msgs) == Len(resp.Successful) = Len(msgs)

\* main.go:197
DeleteErrored(resp) == resp.err

\* mutant: the Failed list of DeleteMessageBatch is not checked
DeleteFailedIgnored(resp) == FALSE

\* main.go:202
DeleteFailed(resp) == Len(resp.Failed) > 0

\* mutant: batches are counted instead of messages
NewProcessedPerBatch(processed, msgs) == processed + 1

\* main.go:207
NewProcessed(processed, msgs) == processed + Len(msgs)

\* mutant: the total is set to the moved count on every update
SetTotalAlways(total, processed, number) == processed

\* mutant: the total is never revised
SetTotalNever(total, processed, number) == total

\* main.go:211-213
SetTotal(total, processed, number) == IF processed > number THEN processed ELSE total

\* mutant: the error of GetQueueUrl is dropped
resolveQueueURLDropsError(found) == [url |-> "", err |-> FALSE]

\* main.go:87-98: found says whether GetQueueUrl knows the queue name
resolveQueueURL(found) ==
    IF ~found THEN [url |-> "", err |-> TRUE] ELSE [url |-> "QueueUrl", err |-> FALSE]

\* mutant: a count of one is taken for an empty queue too
NothingToMoveUpToOne(number) == number <= 1

\* main.go:78
NothingToMove(number) == number = 0

\* main.go:210-216: b.Total, b.ValueInt (which panics on a value above the total), loop
UpdateProgress(processed) ==
    LET total == SetTotal(bTotal, processed, numberOfMessages) IN
    /\ bTotal' = total
    /\ IF processed > total
         THEN /\ pc' = "panic"
              /\ bValue' = bValue
         ELSE /\ pc' = "receive"
              /\ bValue' = processed

Return(line) ==
    /\ pc' = "returned"
    /\ report' = line

\* ---- initial state: the source holds messages 1..n, the destination none
Init ==
    /\ pc = "main"
    /\ \E n \in 0..NumMsgs : source = 1..n /\ source0 = 1..n
    /\ invisible = {}
    /\ dest = [i \in Ids |-> 0]
    /\ numberOfMessages = 0
    /\ messagesProcessed = 0
    /\ bTotal = 0
    /\ bValue = 0
    /\ messages = <<>>
    /\ recvErr = FALSE
    /\ sendResp = NoSendResp
    /\ delReq = <<>>
    /\ delResp = NoDelResp
    /\ report = Info("", NoNum)
    /\ calls = [recv |-> 0, send |-> 0, del |-> 0]
    /\ short = 0
    /\ received = {}
    /\ sendReq = <<>>
    /\ resolveErr = "none"
    /\ run = 1

\* main (main.go:26-85) up to the call of moveMessages and the set-up of its loop
\* (main.go:132-156)
Main ==
    /\ pc = "main"
    /\ \E env \in MainEnv :
         /\ resolveErr' = IF env.sess /\ ~env.src THEN "source"
                          ELSE IF env.sess /\ ~env.dst THEN "destination"
                          ELSE "none"
         /\ IF ~env.sess
              THEN /\ Return(Error("Unable to create AWS session", NoNum))
                   /\ UNCHANGED <<numberOfMessages, bTotal>>
            ELSE IF resolveQueueURL(env.src).err
              THEN /\ Return(logAwsError("Failed to resolve source queue"))
                   /\ UNCHANGED <<numberOfMessages, bTotal>>
            ELSE IF resolveQueueURL(env.dst).err
              THEN /\ Return(logAwsError("Failed to resolve destination queue"))
                   /\ UNCHANGED <<numberOfMessages, bTotal>>
            ELSE IF ~env.attrOk
              THEN /\ pc' = "panic"
                   /\ UNCHANGED <<numberOfMessages, bTotal, report>>
            ELSE IF NothingToMove(Atoi(env.attr))
              THEN /\ Return(Info("Looks like nothing to move. Done.", NoNum))
                   /\ numberOfMessages' = Atoi(env.attr)
                   /\ UNCHANGED bTotal
            ELSE /\ pc' = "receive"
                 /\ numberOfMessages' = Atoi(env.attr)
                 /\ bTotal' = Atoi(env.attr)
                 /\ report' = Info("Starting to move messages...", NoNum)
    /\ UNCHANGED <<source, source0, invisible, dest, messagesProcessed, bValue, messages,
                   recvErr, sendResp, delReq, delResp, calls, short, received, sendReq, run>>

\* main.go:159-175: ReceiveMessage and the two checks after it
ReceiveMessage ==
    /\ pc = "receive"
    /\ \E resp \in ReceiveResponses(source \ invisible, calls.recv + 1) :
         /\ messages' = resp.Messages
         /\ recvErr' = resp.err
         /\ received' = received \cup {resp.Messages[j].MessageId :
                                         j \in 1..Len(resp.Messages)}
         /\ invisible' = IF VisibilityTimeout > 0
                           THEN invisible \cup {resp.Messages[j].MessageId :
                                                  j \in 1..Len(resp.Messages)}
                           ELSE invisible
         /\ IF NoMessages(resp)
              THEN Return(Info("Done. Moved", DoneCount(numberOfMessages, messagesProcessed)))
            ELSE IF resp.err
              THEN Return(logAwsError("Failed to receive messages"))
            ELSE /\ pc' = "send"
                 /\ report' = report
    /\ calls' = [calls EXCEPT !.recv = @ + 1]
    /\ sendResp' = NoSendResp
    /\ delReq' = <<>>
    /\ delResp' = NoDelResp
    /\ sendReq' = <<>>
    /\ UNCHANGED <<source, source0, dest, numberOfMessages, messagesProcessed, bTotal,
                   bValue, short, resolveErr, run>>

\* main.go:172-189 (and 210-216 when the delete is skipped): SendMessageBatch
SendMessageBatch ==
    /\ pc = "send"
    /\ \E resp \in SendResponses(convertToEntries(messages), short < MaxShort) :
         /\ sendResp' = resp
         /\ dest' = [i \in Ids |->
                       dest[i] + Cardinality({j \in 1..Len(resp.Successful) :
                                                resp.Successful[j].Id = i})]
         /\ short' = IF ~resp.err /\ Len(resp.Successful) + Len(resp.Failed) < Len(messages)
                       THEN short + 1 ELSE short
         /\ IF SendErrored(resp)
              THEN /\ Return(logAwsError("Failed to un-queue messages to the destination"))
                   /\ UNCHANGED <<bTotal, bValue>>
            ELSE IF SendFailed(resp)
              THEN /\ Return(Error("messages failed to enqueue, exiting", Len(resp.Failed)))
                   /\ UNCHANGED <<bTotal, bValue>>
            ELSE IF AllForwarded(resp, messages)
              THEN /\ pc' = "delete"
                   /\ UNCHANGED <<bTotal, bValue, report>>
            ELSE /\ UpdateProgress(messagesProcessed)
                 /\ report' = report
    /\ calls' = [calls EXCEPT !.send = @ + 1]
    /\ sendReq' = convertToEntries(messages)
    /\ UNCHANGED <<source, source0, invisible, numberOfMessages, messagesProcessed,
                   messages, recvErr, delReq, delResp, received, resolveErr, run>>

\* main.go:190-216: DeleteMessageBatch, the moved count and the progress bar
DeleteMessageBatch ==
    /\ pc = "delete"
    /\ delReq' = convertSuccessfulMessageToBatchRequestEntry(messages)
    /\ \E resp \in DeleteResponses(convertSuccessfulMessageToBatchRequestEntry(messages)) :
         /\ delResp' = resp
         /\ source' = source \ resp.Deleted
         /\ invisible' = invisible \ resp.Deleted
         /\ IF DeleteErrored(resp)
              THEN /\ Return(logAwsError("Failed to delete messages from source queue"))
                   /\ UNCHANGED <<messagesProcessed, bTotal, bValue>>
            ELSE IF DeleteFailed(resp)
              THEN /\ Return(Error("Error deleting messages, the following were not deleted",
                                   NoNum))
                   /\ UNCHANGED <<messagesProcessed, bTotal, bValue>>
            ELSE /\ messagesProcessed' = NewProcessed(messagesProcessed, messages)
                 /\ UpdateProgress(NewProcessed(messagesProcessed, messages))
                 /\ report' = report
    /\ calls' = [calls EXCEPT !.del = @ + 1]
    /\ UNCHANGED <<source0, dest, numberOfMessages, messages, recvErr, sendResp, short,
                   received, sendReq, resolveErr, run>>

\* the service: the leases granted by ReceiveMessage (VisibilityTimeout) run out
LeaseExpire ==
    /\ invisible # {}
    /\ invisible' = {}
    /\ UNCHANGED <<pc, source, source0, dest, numberOfMessages, messagesProcessed, bTotal,
                   bValue, messages, recvErr, sendResp, delReq, delResp, report, calls, short,
                   received, sendReq, resolveErr, run>>

Next ==
    \/ Main
    \/ ReceiveMessage
    \/ SendMessageBatch
    \/ DeleteMessageBatch
    \/ LeaseExpire

Spec == Init /\ [][Next]_vars

\* ---- re-invocation: the operator starts the program again after a failed run
\* a new process: main.go:26 with fresh locals; the queues, and the leases the failed
\* run was granted, are as that run left them
Restart ==
    /\ run = 1
    /\ pc = "returned"
    /\ report.level = "error"
    /\ calls.recv > 0
    /\ run' = 2
    /\ pc' = "main"
    /\ numberOfMessages' = 0
    /\ messagesProcessed' = 0
    /\ bTotal' = 0
    /\ bValue' = 0
    /\ messages' = <<>>
    /\ recvErr' = FALSE
    /\ sendResp' = NoSendResp
    /\ sendReq' = <<>>
    /\ delReq' = <<>>
    /\ delResp' = NoDelResp
    /\ report' = Info("", NoNum)
    /\ calls' = [recv |-> 0, send |-> 0, del |-> 0]
    /\ received' = {}
    /\ resolveErr' = "none"
    /\ UNCHANGED <<source, source0, invisible, dest, short>>

\* every call of the run so far succeeded: no error, no failed entry, every entry of a
\* send confirmed
CallsSucceed ==
    /\ pc # "panic"
    /\ report.level # "error"
    /\ ~recvErr
    /\ sendResp.none \/ (/\ ~sendResp.err
                          /\ Len(sendResp.Failed) = 0
                          /\ Len(sendResp.Successful) = Len(sendReq))
    /\ delResp.none \/ (~delResp.err /\ Len(delResp.Failed) = 0)

InitRerun == Init /\ Cardinality(source) <= RerunMsgs

\* a first run, and after a failed one a second run whose calls all succeed
NextRerun ==
    \/ run = 1 /\ Main
    \/ run = 1 /\ ReceiveMessage
    \/ run = 1 /\ SendMessageBatch
    \/ run = 1 /\ DeleteMessageBatch
    \/ Restart
    \/ run = 2 /\ Main /\ CallsSucceed'
    \/ run = 2 /\ ReceiveMessage /\ CallsSucceed'
    \/ run = 2 /\ SendMessageBatch /\ CallsSucceed'
    \/ run = 2 /\ DeleteMessageBatch /\ CallsSucceed'
    \/ LeaseExpire

RerunSpec == InitRerun /\ [][NextRerun]_vars

\* ---- the translators on their own: any list of up to MaxLen messages, whose ids,
\* bodies and receipt handles vary independently, is handed to both of them
TranslatorInputs ==
    UNION {[1..n -> [MessageId : 1..MaxId, Body : 0..1,
                     ReceiptHandle : {<<h, 1>> : h \in 1..MaxId}]] : n \in 0..MaxLen}

InitTranslator ==
    /\ pc = "translate"
    /\ messages \in TranslatorInputs
    /\ source = {}
    /\ source0 = {}
    /\ invisible = {}
    /\ dest = [i \in Ids |-> 0]
    /\ numberOfMessages = 0
    /\ messagesProcessed = 0
    /\ bTotal = 0
    /\ bValue = 0
    /\ recvErr = FALSE
    /\ sendResp = NoSendResp
    /\ delReq = <<>>
    /\ delResp = NoDelResp
    /\ report = Info("", NoNum)
    /\ calls = [recv |-> 0, send |-> 0, del |-> 0]
    /\ short = 0
    /\ received = {}
    /\ sendReq = <<>>
    /\ resolveErr = "none"
    /\ run = 1

\* main.go:174 and main.go:191: both translators applied to the same list
Translate ==
    /\ pc = "translate"
    /\ sendReq' = convertToEntries(messages)
    /\ delReq' = convertSuccessfulMessageToBatchRequestEntry(messages)
    /\ pc' = "translated"
    /\ UNCHANGED <<source, source0, invisible, dest, numberOfMessages, messagesProcessed,
                   bTotal, bValue, messages, recvErr, sendResp, delResp, report, calls,
                   short, received, resolveErr, run>>

TranslatorSpec == InitTranslator /\ [][Translate]_vars

\* ---- the termination states of the transfer loop
\* Empty: the loop left through main.go:162-164
Empty == pc = "returned" /\ report.msg = "Done. Moved"
\* Failed: the program logged an error and returned
Failed == pc = "returned" /\ report.level = "error"
\* moveMessages has been called
LoopStarted == pc \in {"receive", "send", "delete"} \/ calls.recv > 0

Removed == source0 \ source
Delivered == {i \in Ids : dest[i] > 0}
MessageIds(msgs) == {msgs[j].MessageId : j \in 1..Len(msgs)}
Max2(a, b) == IF a > b THEN a ELSE b

\* the send response of this iteration reports at least one failed entry
SendReportedFailure(resp) == ~resp.none /\ ~resp.err /\ Len(resp.Failed) > 0
\* the delete of this iteration failed outright or reports a per-message failure
DeleteWentWrong(resp) == ~resp.none /\ (resp.err \/ Len(resp.Failed) > 0)

\* C1: the entries of a DeleteMessageBatch request are all among the entries the
\* SendMessageBatch response of the same iteration lists as Successful, and every
\* message removed from the source has been confirmed delivered to the destination.
C1_DeleteOnlyConfirmed ==
    /\ delReq # <<>> => EntryIds(delReq) \subseteq EntryIds(sendResp.Successful)
    /\ Removed \subseteq Delivered

C1_Witness == delReq # <<>> /\ Len(delReq) >= 2 /\ Removed # {}

\* C2: a send response with a failed entry ends the loop in Failed at once, with no
\* delete request in that iteration and the moved count as it was.
C2_FailedEntryAborts ==
    /\ [](SendReportedFailure(sendResp) => Failed /\ delReq = <<>>)
    /\ [][pc = "send" /\ SendReportedFailure(sendResp')
            => /\ pc' = "returned"
               /\ messagesProcessed' = messagesProcessed
               /\ calls'.del = calls.del]_vars

\* ten messages sent, one failed and nine successful
C2_Witness ==
    /\ Len(messages) = 10
    /\ ~sendResp.none /\ Len(sendResp.Failed) = 1 /\ Len(sendResp.Successful) = 9
    /\ Failed /\ messagesProcessed = 0

\* C3: a failed ReceiveMessage ends the run in Failed with the receive error logged,
\* never as a finished drain.
C3_ReceiveFailureIsFatal ==
    recvErr => Failed /\ report = logAwsError("Failed to receive messages")

\* C4: a receive that returns no message and no error ends the loop in Empty, and
\* when the loop ends in Empty with no failed receive the moved count is the number
\* of messages of the batches that were forwarded and deleted, which are the messages
\* gone from the source.
C4_TerminatesWithMovedCount ==
    /\ [][pc = "receive" /\ calls'.recv = calls.recv + 1 /\ messages' = <<>> /\ ~recvErr'
            => Empty']_vars
    /\ [](Empty /\ ~recvErr => messagesProcessed = Cardinality(Removed))

\* batches of 10 and 1, then an empty receive
C4_Witness ==
    Empty /\ ~recvErr /\ calls.recv = 3 /\ calls.del = 2 /\ messagesProcessed = 11

\* C5: the count reported when the loop ends on an empty batch is the moved count.
C5_DoneReportsMovedCount == Empty => report.num = messagesProcessed

\* C6 (as stated): whatever the approximate count, a run that got past the queue
\* resolution ends only after a receive that returned no message or after an error.
C6_CountNeverEndsTransfer ==
    pc = "returned" /\ report.level # "error" => calls.recv > 0 /\ messages = <<>>

\* C6 (amended): for every approximate count other than 0 the run ends only after a
\* receive that returned no message or after an error; with a count of 0 it ends
\* before any receive.
C6_NonZeroCountNeverEndsTransfer ==
    /\ pc = "returned" /\ report.level # "error" /\ numberOfMessages # 0
         => calls.recv > 0 /\ messages = <<>>
    /\ pc = "returned" /\ report.level # "error" /\ numberOfMessages = 0
         => calls.recv = 0

\* the count was below the real size of the queue and the loop went on past it
C6_Witness ==
    /\ pc = "returned" /\ report.level # "error"
    /\ numberOfMessages = 1 /\ messagesProcessed = 11 /\ calls.recv = 3

\* C7: a SendMessageBatch that fails outright ends the loop in Failed with no delete
\* request, and the whole batch is still in the source queue.
C7_SendErrorLeavesBatch ==
    ~sendResp.none /\ sendResp.err
        => /\ Failed
           /\ report = logAwsError("Failed to un-queue messages to the destination")
           /\ delReq = <<>>
           /\ calls.del < calls.send
           /\ MessageIds(messages) \subseteq source

C7_Witness == ~sendResp.none /\ sendResp.err /\ Len(messages) >= 2 /\ pc = "returned"

\* C8: a DeleteMessageBatch that fails outright or reports a failed entry ends the loop
\* in Failed, the moved count stays as it was, and no call follows.
C8_DeleteFailureAborts ==
    /\ [](DeleteWentWrong(delResp) => Failed)
    /\ [][pc = "delete" /\ DeleteWentWrong(delResp')
            => messagesProcessed' = messagesProcessed]_vars
    /\ [][Failed => UNCHANGED <<pc, calls, messagesProcessed>>]_vars

C8_Witness ==
    /\ ~delResp.none /\ ~delResp.err /\ Len(delResp.Failed) = 1 /\ Len(delReq) >= 2
    /\ pc = "returned" /\ calls.del = 2

\* C9: the moved count and the total of the progress bar never decrease.
C9_Monotonic ==
    [][messagesProcessed' >= messagesProcessed /\ bTotal' >= bTotal]_vars

C9_Witness == LoopStarted /\ messagesProcessed > numberOfMessages /\ calls.del >= 2

\* C10: once the loop runs, the total of the progress bar is the larger of the
\* approximate count and the moved count, the displayed value is at most the
\* total, and the update never panics.
C10_TotalIsMax ==
    LoopStarted
        => /\ bTotal = Max2(numberOfMessages, messagesProcessed)
           /\ bValue <= bTotal
           /\ pc # "panic"

\* the approximate count was 2 and 11 messages were drained
C10_Witness ==
    Empty /\ numberOfMessages = 2 /\ messagesProcessed = 11 /\ bTotal = 11 /\ bValue = 11

\* C11: a run that ends in Failed has logged the number of messages moved before the
\* failure together with the cause.
C11_FailureReportsMovedCount ==
    Failed /\ LoopStarted => report.num = messagesProcessed

\* the exit code of the process: main returns (0) or the Go runtime panics (2);
\* main.go has no os.Exit
ExitCode == IF pc = "panic" THEN 2 ELSE 0

\* C12: the exit code is 0 after a successful transfer and not 0 after a failed
\* session, resolution, receive, forward or delete.
C12_ExitCodeConvention ==
    pc = "returned"
        => /\ (Failed \/ recvErr => ExitCode # 0)
           /\ (~Failed /\ ~recvErr => ExitCode = 0)

\* the messages received from the source and not deleted from it
Limbo == received \cap source

\* C13: the messages received and not yet deleted number at most one batch, that is
\* at most 10, and a received batch holds at most 10 messages.
C13_LimboAtMostOneBatch ==
    /\ Len(messages) <= MaxNumberOfMessages
    /\ Cardinality(Limbo) <= MaxNumberOfMessages

C15_TranslatorsPreserve ==
    pc = "translated"
        => /\ Len(sendReq) = Len(messages)
           /\ Len(delReq) = Len(messages)
           /\ \A i \in 1..Len(messages) :
                /\ sendReq[i].Id = messages[i].MessageId
                /\ sendReq[i].MessageBody = messages[i].Body
                /\ delReq[i].Id = messages[i].MessageId
                /\ delReq[i].ReceiptHandle = messages[i].ReceiptHandle

\* a translated list whose messages differ in id, body and handle, the handle not
\* being the one the id would suggest
C15_Witness ==
    /\ pc = "translated"
    /\ Len(messages) = MaxLen
    /\ messages[1].MessageId # messages[2].MessageId
    /\ messages[1].Body # messages[2].Body
    /\ messages[1].ReceiptHandle # messages[2].ReceiptHandle
    /\ messages[1].ReceiptHandle[1] # messages[1].MessageId
    /\ Len(sendReq) = MaxLen /\ Len(delReq) = MaxLen

\* C16: when resolving the source or the destination queue name fails, the program
\* logs the error and returns with no ReceiveMessage, SendMessageBatch or
\* DeleteMessageBatch call issued, and both queues are as they were at the start.
C16_ResolutionFailureStopsBeforeTransfer ==
    resolveErr # "none"
        => /\ Failed
           /\ ~LoopStarted
           /\ calls = [recv |-> 0, send |-> 0, del |-> 0]
           /\ source = source0
           /\ Delivered = {}

\* the destination name did not resolve while the source holds messages
C16_Witness ==
    /\ resolveErr = "destination"
    /\ pc = "returned"
    /\ source0 # {}
    /\ source = source0

\* C17: the loop is back at ReceiveMessage only after the batch cycle completed: the
\* whole batch was forwarded, a DeleteMessageBatch for the whole batch was issued and
\* succeeded, and messagesProcessed grew by the batch size (so it counts the messages
\* removed from the source); also when the send response lists no Failed entry and
\* fewer Successful entries than messages sent.
C17_NextReceiveAfterFullCycle ==
    pc = "receive" /\ calls.recv > 0
        => /\ ~sendResp.none /\ ~sendResp.err
           /\ Len(sendResp.Failed) = 0
           /\ Len(sendResp.Successful) = Len(messages)
           /\ MessageIds(messages) \subseteq Delivered
           /\ ~delResp.none /\ ~delResp.err
           /\ Len(delResp.Failed) = 0
           /\ EntryIds(delReq) = MessageIds(messages)
           /\ MessageIds(messages) \cap source = {}
           /\ messagesProcessed = Cardinality(Removed)

\* C18: when the run ends in the Empty ("Done") state the source holds no message and
\* every message of the start is in the destination.
C18_DoneMeansAllMoved ==
    Empty => source = {} /\ \A i \in source0 : dest[i] > 0

\* C19: within a run no message is forwarded to the destination more than once, and
\* when the loop is back at ReceiveMessage after a send the batch sent is no longer in
\* the source.
C19_ForwardedAtMostOnce ==
    /\ \A i \in Ids : dest[i] <= 1
    /\ pc = "receive" /\ calls.send > 0 => MessageIds(messages) \cap source = {}
====
